---- MODULE Spec2Model ----
(***************************************************************************)
(* Utterance generator: the response normaliser of the three generation    *)
(* clients (main.py generate_utterances, generate_utterances_direct_api,   *)
(* main_simple.py generate_utterances_simple), the orchestrator main() of  *)
(* main.py with its primary -> fallback control flow, and save_to_csv.     *)
(*                                                                         *)
(* A text is a sequence of characters, a character a one-character string. *)
(* A list of utterances is a sequence of texts.                            *)
(***************************************************************************)
EXTENDS Integers, Sequences, FiniteSets, TLC

VARIABLES
    pc,             \* position of main()
    clock,          \* datetime.now(), in clock instants
    dirs,           \* the file system: the output directories that exist
    files,          \* the file system: path -> content of the record file
    apiKey,         \* os.environ has GOOGLE_API_KEY
    intention,      \* main's local `intention`
    utterances,     \* main's local `utterances`
    primaryCalls,   \* calls of generate_utterances in this run
    primaryIn,      \* what the session did in the last primary call
    primaryOut,     \* what the last primary call returned or raised
    fallbackCalls,  \* calls of generate_utterances_direct_api in this run
    fallbackArg,    \* the intention passed to the last fallback call
    fallbackIn,     \* what the remote call did in the last fallback call
    fallbackOut,    \* what the last fallback call returned or raised
    displayed,      \* the list printed by main, if any
    saveCalls,      \* calls of save_to_csv in this run
    saved,          \* what the calls of save_to_csv returned, in order
    written,        \* the content each successful call of save_to_csv wrote
    filesAtStart,   \* the record files when main() started
    nClient,        \* NormSpec: the client applied to nRaw, "" before
    nRaw,           \* NormSpec: the raw response text
    nIntention,     \* NormSpec: the intention
    nResult         \* NormSpec: what the client returned

fsVars == <<clock, dirs, files, saveCalls, saved, written>>
runVars == <<pc, apiKey, intention, utterances, primaryCalls, primaryIn,
             primaryOut, fallbackCalls, fallbackArg, fallbackIn, fallbackOut,
             displayed, filesAtStart>>
mainVars == <<runVars, fsVars>>
normVars == <<nClient, nRaw, nIntention, nResult>>
vars == <<mainVars, normVars>>

----------------------------------------------------------------------------
(* Bounds of the model *)

MaxLen == 4         \* longest exhaustively enumerated raw text
MaxLines == 11      \* most lines of a line-built raw text
MaxSaves == 3       \* invocations of save_to_csv in SaveSpec
MaxClock == 4       \* instants the clock can advance
TicksPerSecond == 2 \* clock instants in one (scaled) second
SecondsPerDay == 2  \* seconds in one (scaled) calendar day

(* Program constants *)

TargetCount == 10   \* `while len(utterances) < 10`, `utterances[:10]`
PrefixWindow == 5   \* `'.' in cleaned[:5]`
SimpleMinLen == 2   \* `len(cleaned) > 2` of main_simple.py

----------------------------------------------------------------------------
(* Python's str and list operations *)

Min(a, b) == IF a < b THEN a ELSE b

\* str.strip() with no argument strips these (ASCII) characters
Whitespace == {" ", "\t", "\n", "\r"}

Digits == {"0", "1", "2", "3", "4", "5", "6", "7", "8", "9"}

\* s.strip()
Strip(s) ==
    LET keep == {i \in 1..Len(s) : s[i] \notin Whitespace}
    IN  IF keep = {} THEN <<>>
        ELSE LET lo == CHOOSE i \in keep : \A j \in keep : i <= j
                 hi == CHOOSE i \in keep : \A j \in keep : j <= i
             IN  SubSeq(s, lo, hi)

\* position of the first c in s, 0 when there is none
IndexOf(s, c) ==
    LET at == {i \in 1..Len(s) : s[i] = c}
    IN  IF at = {} THEN 0 ELSE CHOOSE i \in at : \A j \in at : i <= j

\* s.split('\n')
RECURSIVE SplitLines(_)
SplitLines(s) ==
    LET i == IndexOf(s, "\n")
    IN  IF i = 0 THEN <<s>>
        ELSE <<SubSeq(s, 1, i - 1)>> \o SplitLines(SubSeq(s, i + 1, Len(s)))

\* s.startswith(p)
StartsWith(s, p) == Len(s) >= Len(p) /\ SubSeq(s, 1, Len(p)) = p

\* s.startswith(tuple)
StartsWithAny(s, ps) == \E p \in ps : StartsWith(s, p)

\* s[:n]
Slice(s, n) == SubSeq(s, 1, Min(n, Len(s)))

\* s.split('.', 1)[1], for s containing a '.'
AfterFirstDot(s) == SubSeq(s, IndexOf(s, ".") + 1, Len(s))

\* "\n".join(lines)
RECURSIVE JoinLines(_)
JoinLines(lines) ==
    IF Len(lines) = 0 THEN <<>>
    ELSE IF Len(lines) = 1 THEN lines[1]
    ELSE lines[1] \o <<"\n">> \o JoinLines(Tail(lines))

\* None, and a value that is not None
None == [isNone |-> TRUE, val |-> <<>>]
Some(v) == [isNone |-> FALSE, val |-> v]

\* bool(x) of None, a str or a list
Truthy(x) == ~x.isNone /\ Len(x.val) > 0

----------------------------------------------------------------------------
(* The response normaliser, one copy per client *)

\* the set of characters of a text
Chars(s) == {s[i] : i \in 1..Len(s)}

\* U+2022 stands for the one character BULLET
Bullet == "U+2022"

\* f"Alternative expression" without the intention
PlaceholderBare(intent) ==
    <<"A","l","t","e","r","n","a","t","i","v","e"," ",
      "e","x","p","r","e","s","s","i","o","n">>

\* f"Alternative expression: {intention}"
AltExpression ==
    <<"A","l","t","e","r","n","a","t","i","v","e"," ",
      "e","x","p","r","e","s","s","i","o","n",":"," ">>
Placeholder(intent) == AltExpression \o intent

\* f"Alternative way to say: {intention}"
AltWayToSay ==
    <<"A","l","t","e","r","n","a","t","i","v","e"," ",
      "w","a","y"," ","t","o"," ","s","a","y",":"," ">>
SimplePlaceholder(intent) == AltWayToSay \o intent

\* a client that returns `utterances` untruncated
TruncateNot(us) == us

\* a client that returns utterances[-10:]
TruncateLast(us) ==
    IF Len(us) > TargetCount THEN SubSeq(us, Len(us) - TargetCount + 1, Len(us)) ELSE us

\* utterances[:10]
Truncate(us) == Slice(us, TargetCount)

\* generate_utterances_direct_api: the tuple given to startswith
DirectSkipPrefixes == {<<"-">>, <<Bullet>>, <<"*">>, <<"1", ".">>, <<"2", ".">>}

\* generate_utterances_direct_api: what one line appends to `utterances`
DirectCleanLine(line) ==
    LET cleaned == Strip(line)
    IN  IF Len(cleaned) > 0 /\ ~StartsWithAny(cleaned, DirectSkipPrefixes)
        THEN LET rest == IF /\ Len(cleaned) > 0
                            /\ cleaned[1] \in Digits
                            /\ "." \in Chars(Slice(cleaned, PrefixWindow))
                         THEN Strip(AfterFirstDot(cleaned))
                         ELSE cleaned
             IN  IF Len(rest) > 0 THEN <<rest>> ELSE <<>>
        ELSE <<>>

\* generate_utterances_direct_api: the for loop over the lines
RECURSIVE DirectCollect(_)
DirectCollect(lines) ==
    IF Len(lines) = 0 THEN <<>>
    ELSE DirectCleanLine(lines[1]) \o DirectCollect(Tail(lines))

\* generate_utterances_direct_api: the while loop that pads
RECURSIVE DirectPad(_, _)
DirectPad(us, intent) ==
    IF Len(us) < TargetCount
    THEN DirectPad(Append(us, Placeholder(intent)), intent)
    ELSE us

\* generate_utterances_direct_api: response.text to the list returned
DirectNormalize(text, intent) ==
    Truncate(DirectPad(DirectCollect(SplitLines(text)), intent))

\* generate_utterances: the tuple given to startswith
PrimarySkipPrefixes == {<<"-">>, <<Bullet>>, <<"*">>, <<"1", ".">>, <<"2", ".">>}

\* generate_utterances: what one line appends to `utterances`
PrimaryCleanLine(line) ==
    LET cleaned == Strip(line)
    IN  IF Len(cleaned) > 0 /\ ~StartsWithAny(cleaned, PrimarySkipPrefixes)
        THEN LET rest == IF /\ Len(cleaned) > 0
                            /\ cleaned[1] \in Digits
                            /\ "." \in Chars(Slice(cleaned, PrefixWindow))
                         THEN Strip(AfterFirstDot(cleaned))
                         ELSE cleaned
             IN  IF Len(rest) > 0 THEN <<rest>> ELSE <<>>
        ELSE <<>>

\* generate_utterances: the for loop over the lines
RECURSIVE PrimaryCollect(_)
PrimaryCollect(lines) ==
    IF Len(lines) = 0 THEN <<>>
    ELSE PrimaryCleanLine(lines[1]) \o PrimaryCollect(Tail(lines))

\* generate_utterances: the while loop that pads
RECURSIVE PrimaryPad(_, _)
PrimaryPad(us, intent) ==
    IF Len(us) < TargetCount
    THEN PrimaryPad(Append(us, Placeholder(intent)), intent)
    ELSE us

\* generate_utterances: response_text to the list returned
PrimaryNormalize(text, intent) ==
    Truncate(PrimaryPad(PrimaryCollect(SplitLines(text)), intent))

\* generate_utterances_simple: the tuple given to startswith
SimpleSkipPrefixes == {<<"-">>, <<Bullet>>, <<"*">>}

\* generate_utterances_simple: what one line appends to `utterances`
SimpleCleanLine(line) ==
    LET cleaned == Strip(line)
    IN  IF Len(cleaned) > 0 /\ ~StartsWithAny(cleaned, SimpleSkipPrefixes)
        THEN LET rest == IF /\ Len(cleaned) > 0
                            /\ Len(cleaned) > SimpleMinLen
                            /\ cleaned[1] \in Digits
                            /\ "." \in Chars(Slice(cleaned, PrefixWindow))
                         THEN Strip(AfterFirstDot(cleaned))
                         ELSE cleaned
             IN  IF Len(rest) > 0 THEN <<rest>> ELSE <<>>
        ELSE <<>>

\* generate_utterances_simple: the for loop over the lines
RECURSIVE SimpleCollect(_)
SimpleCollect(lines) ==
    IF Len(lines) = 0 THEN <<>>
    ELSE SimpleCleanLine(lines[1]) \o SimpleCollect(Tail(lines))

\* generate_utterances_simple: the while loop that pads
RECURSIVE SimplePad(_, _)
SimplePad(us, intent) ==
    IF Len(us) < TargetCount
    THEN SimplePad(Append(us, SimplePlaceholder(intent)), intent)
    ELSE us

\* generate_utterances_simple: response.text to the list returned
SimpleNormalize(text, intent) ==
    Truncate(SimplePad(SimpleCollect(SplitLines(text)), intent))

----------------------------------------------------------------------------
(* try / except and the three clients *)

\* the outcome of a function body: it returns a value or raises
Return(v) == [raised |-> "", ret |-> v]
Raise(e) == [raised |-> e, ret |-> None]

\* the classes `except Exception` catches; KeyboardInterrupt is not one
ExceptionClasses == {"ImportError", "ValueError", "TypeError", "RuntimeError"}

\* a client with no try / except
ClientNoExcept(r) == r

\* `except Exception as e: print(...); return None` of a client
ClientExcept(r) == IF r.raised \in ExceptionClasses THEN Return(None) ELSE r

\* a client that tests `if response:` only
ResponseNotNone(response) == ~response.isNone

\* `if response and response.text:`; a response is None or its text,
\* and the text is None or a str
ResponseHasText(response) ==
    /\ ~response.isNone
    /\ ~response.val.isNone
    /\ Len(response.val.val) > 0

\* generate_utterances_direct_api: the body of the try block.
\* call.fault says which step raises, call.response what the call returns
DirectApiBody(call, key, intent) ==
    IF call.fault = "import" THEN Raise("ImportError")
    ELSE IF ~key THEN Raise("ValueError")
    ELSE IF call.fault = "call" THEN Raise("RuntimeError")
    ELSE IF call.fault = "interrupt" THEN Raise("KeyboardInterrupt")
    ELSE IF call.fault = "text" THEN Raise("ValueError")
    ELSE IF ResponseHasText(call.response)
         THEN Return(Some(DirectNormalize(call.response.val.val, intent)))
         ELSE Return(None)

\* generate_utterances_direct_api(intention)
generate_utterances_direct_api(call, key, intent) ==
    ClientExcept(DirectApiBody(call, key, intent))

\* generate_utterances_simple: the body of the try block; the missing key
\* returns None without raising
SimpleBody(call, key, intent) ==
    IF call.fault = "import" THEN Raise("ImportError")
    ELSE IF ~key THEN Return(None)
    ELSE IF call.fault = "call" THEN Raise("RuntimeError")
    ELSE IF call.fault = "interrupt" THEN Raise("KeyboardInterrupt")
    ELSE IF call.fault = "text" THEN Raise("ValueError")
    ELSE IF ResponseHasText(call.response)
         THEN Return(Some(SimpleNormalize(call.response.val.val, intent)))
         ELSE Return(None)

\* generate_utterances_simple(intention)
generate_utterances_simple(call, key, intent) ==
    ClientExcept(SimpleBody(call, key, intent))

----------------------------------------------------------------------------
(* The session-based client *)

\* A part of a candidate's content: it has a `text` attribute or not, and
\* the attribute is None or a str
TextPart(t) == [hasText |-> TRUE, text |-> Some(t)]
NonePart == [hasText |-> TRUE, text |-> None]
BarePart == [hasText |-> FALSE, text |-> None]

\* An event of runner.run_async: one with a truthy `response` whose
\* candidates are each None (no content) or the parts of its content,
\* one with a `text` attribute only, or one with neither
ResponseEvent(cands) == [kind |-> "response", cands |-> cands, text |-> None]
TextEvent(t) == [kind |-> "text", cands |-> <<>>, text |-> t]
OtherEvent == [kind |-> "other", cands |-> <<>>, text |-> None]

\* `response_text += x`: a TypeError when x is None
AddText(acc, x) ==
    IF acc.raised # "" THEN acc
    ELSE IF x.isNone THEN Raise("TypeError")
    ELSE Return(acc.ret \o x.val)

\* `for part in candidate.content.parts: if hasattr(part, 'text'): ...`
RECURSIVE AddParts(_, _)
AddParts(acc, parts) ==
    IF Len(parts) = 0 THEN acc
    ELSE AddParts(IF parts[1].hasText THEN AddText(acc, parts[1].text) ELSE acc,
                  Tail(parts))

\* `for candidate in event.response.candidates: if ... candidate.content:`
RECURSIVE AddCandidates(_, _)
AddCandidates(acc, cands) ==
    IF Len(cands) = 0 THEN acc
    ELSE AddCandidates(IF cands[1].isNone THEN acc
                       ELSE AddParts(acc, cands[1].val),
                       Tail(cands))

\* the body of `async for event in runner.run_async(...)`
AddEvent(acc, event) ==
    IF event.kind = "response" THEN AddCandidates(acc, event.cands)
    ELSE IF event.kind = "text" THEN AddText(acc, event.text)
    ELSE acc

\* the whole `async for` loop, from response_text = ""
RECURSIVE AddEvents(_, _)
AddEvents(acc, events) ==
    IF Len(events) = 0 THEN acc
    ELSE AddEvents(AddEvent(acc, events[1]), Tail(events))

\* `if response_text.strip():`
PrimaryHasText(text) == Len(Strip(text)) > 0

\* generate_utterances: the body of the try block.
\* session.fault says which step raises, session.events what is streamed
PrimaryBody(session, intent) ==
    IF session.fault = "setup" THEN Raise("RuntimeError")
    ELSE IF session.fault = "stream" THEN Raise("RuntimeError")
    ELSE IF session.fault = "interrupt" THEN Raise("KeyboardInterrupt")
    ELSE LET acc == AddEvents(Return(<<>>), session.events)
         IN  IF acc.raised # "" THEN Raise(acc.raised)
             ELSE IF PrimaryHasText(acc.ret)
                  THEN Return(Some(PrimaryNormalize(acc.ret, intent)))
                  ELSE Return(None)

\* generate_utterances(agent, intention)
generate_utterances(session, intent) ==
    ClientExcept(PrimaryBody(session, intent))

----------------------------------------------------------------------------
(* save_to_csv *)

\* datetime.now().strftime("%Y%m%d_%H%M%S"): the second of the instant
Timestamp(t) == t \div TicksPerSecond

\* datetime.now().strftime('%Y%m%d'): the day of the instant
DateStamp(t) == (t \div TicksPerSecond) \div SecondsPerDay

\* os.path.join(output_dir, filename), from the two readings of the clock
FilePath(tName, tDir) == [dir |-> DateStamp(tDir), name |-> Timestamp(tName)]

\* fieldnames
FieldNames == <<"id", "utterance", "original_intention">>

\* csv_data numbered by enumerate(utterances), from 0
CsvDataFromZero(us, intent) ==
    [i \in 1..Len(us) |->
        [id |-> i - 1, utterance |-> us[i], original_intention |-> intent]]

\* csv_data: `for i, utterance in enumerate(utterances, 1)`
CsvData(us, intent) ==
    [i \in 1..Len(us) |->
        [id |-> i, utterance |-> us[i], original_intention |-> intent]]

\* what the `with open(...)` block leaves in the file after n rows
CsvFile(us, intent, n) ==
    [header |-> FieldNames, rows |-> SubSeq(CsvData(us, intent), 1, n)]

\* the file system with `content` at `path`
WriteFile(fs, path, content) ==
    [q \in DOMAIN fs \cup {path} |-> IF q = path THEN content ELSE fs[q]]

\* save_to_csv(utterances, intention): the file system after the call and
\* the value returned. The clock reads tName, then tDir; io.fault says which
\* step raises OSError, io.rows how many rows were written before it
save_to_csv(us, intent, tName, tDir, io, ds, fs) ==
    LET path == FilePath(tName, tDir)
    IN  IF io.fault = "makedirs" /\ path.dir \notin ds
        THEN [dirs |-> ds, files |-> fs, ret |-> None, wrote |-> FALSE]
        ELSE IF io.fault = "open"
        THEN [dirs |-> ds \cup {path.dir}, files |-> fs, ret |-> None,
              wrote |-> FALSE]
        ELSE IF io.fault = "write"
        THEN [dirs |-> ds \cup {path.dir},
              files |-> WriteFile(fs, path, CsvFile(us, intent, Min(io.rows, Len(us)))),
              ret |-> None, wrote |-> FALSE]
        ELSE [dirs |-> ds \cup {path.dir},
              files |-> WriteFile(fs, path, CsvFile(us, intent, Len(us))),
              ret |-> Some(path), wrote |-> TRUE]

\* the ways the file system can fail a call
IoFaults ==
    {[fault |-> f, rows |-> 0] : f \in {"none", "makedirs", "open"}}
    \cup {[fault |-> "write", rows |-> n] : n \in {0, 1}}

----------------------------------------------------------------------------
(* Inputs *)

Letters == <<"a", "b", "c", "d", "e", "f", "g", "h",
             "i", "j", "k", "l", "m", "n", "o", "p">>

\* n distinct clean lines: no surrounding blanks, no bullet, no number
CleanLineAt(i) ==
    <<Letters[((i - 1) \div Len(Letters)) + 1], Letters[((i - 1) % Len(Letters)) + 1]>>
CleanLines(n) == [i \in 1..n |-> CleanLineAt(i)]

\* lines the model should clean, strip or drop
SpecialLines ==
    { <<>>, <<" ", " ">>, <<" ", "a", " ">>,
      <<"-", " ", "a">>, <<"*", "a">>, <<Bullet, " ", "a">>,
      <<"1", ".", " ", "H", "e", "l", "l", "o", " ", "t", "h", "e", "r", "e">>,
      <<"2", ".", "x">>, <<"3", ".", " ", "b">>, <<"1", "0", ".", " ", "c">>,
      <<"1", ".">>, <<"3", ".">>, <<"2", ".", "5", " ", "x">>,
      <<"3", "a", "a", "a", ".", "b">>, <<"3", "a", "a", "a", "a", ".", "b">>,
      <<"a", ".", "b">> }

\* lines with `line` put after the first k of them
InsertAt(lines, k, line) ==
    SubSeq(lines, 1, k) \o <<line>> \o SubSeq(lines, k + 1, Len(lines))

\* raw texts built from lines
LineTexts ==
    {JoinLines(CleanLines(n)) : n \in 0..MaxLines}
    \cup UNION {{JoinLines(InsertAt(CleanLines(n), k, sp)) :
                    k \in 0..n, sp \in SpecialLines} : n \in 0..MaxLines}

\* every raw text of at most MaxLen characters
Alphabet == {"a", " ", "\n", "1", "3", ".", "-"}
ShortTexts == UNION {[1..n -> Alphabet] : n \in 0..MaxLen}

NormTexts == ShortTexts \cup LineTexts

\* intentions as get_user_input returns them: trimmed and not empty
Intentions == {<<"p">>, <<"o", "r", "d", "e", "r", " ", "a", " ", "p", "i", "z", "z", "a">>}

\* what the user can type at "Please enter an intention: "
TypedIntentions ==
    {<<>>, <<" ">>, <<" ", "p", " ">>} \cup Intentions

\* raw texts of the orchestrator's runs
MainTexts ==
    { <<>>, <<" ">>, <<"\n">>,
      JoinLines(CleanLines(3)),
      JoinLines(CleanLines(TargetCount + 2)),
      JoinLines(<<<<"1", ".", " ", "a">>, <<"3", ".", " ", "b">>, <<"-", "c">>>>) }

\* what the remote call of the stateless client can do
Calls ==
    {[fault |-> f, response |-> None] : f \in {"import", "call", "interrupt", "text"}}
    \cup {[fault |-> "none", response |-> r] :
            r \in {None, Some(None)} \cup {Some(Some(t)) : t \in MainTexts}}

\* the stateless call that answers with text t
CallWithText(t) == [fault |-> "none", response |-> Some(Some(t))]

\* what the session of the session-based client can do
Sessions ==
    {[fault |-> f, events |-> <<>>] : f \in {"setup", "stream", "interrupt"}}
    \cup {[fault |-> "none", events |-> es] :
            es \in {<<>>, <<OtherEvent>>, <<TextEvent(None)>>,
                    <<ResponseEvent(<<>>)>>, <<ResponseEvent(<<None>>)>>,
                    <<ResponseEvent(<<Some(<<BarePart>>)>>)>>,
                    <<ResponseEvent(<<Some(<<TextPart(<<"a", "a">>), NonePart>>)>>)>>}
                   \cup {<<TextEvent(Some(t))>> : t \in MainTexts}
                   \cup {<<ResponseEvent(<<Some(<<TextPart(t)>>)>>)>> : t \in MainTexts}
                   \cup {<<TextEvent(Some(SubSeq(t, 1, Len(t) \div 2))), OtherEvent,
                           ResponseEvent(<<None, Some(<<BarePart,
                               TextPart(SubSeq(t, (Len(t) \div 2) + 1, Len(t)))>>)>>)>> :
                            t \in MainTexts}}

\* the session that streams text t as one event
SessionWithText(t) == [fault |-> "none", events |-> <<TextEvent(Some(t))>>]

\* lists handed to save_to_csv in SaveSpec
SaveLists == {<<>>, <<<<"a">>>>, <<<<"a">>, <<"b", ",", "c">>>>}

----------------------------------------------------------------------------
(* main() of main.py *)

\* setup_authentication(): the four probes, in order
setup_authentication(env) ==
    IF env.apiKey THEN TRUE
    ELSE IF env.serviceAccount THEN TRUE
    ELSE IF env.gcloud THEN TRUE
    ELSE IF env.project THEN TRUE
    ELSE FALSE

Environments ==
    [apiKey : BOOLEAN, serviceAccount : BOOLEAN, gcloud : BOOLEAN, project : BOOLEAN]

\* a main() that declares failure without trying the fallback client
FallbackNever(us) == FALSE

\* a main() that calls the fallback client whatever the primary returned
FallbackAlways(us) == TRUE

\* `if not utterances:` after the primary client
FallbackNeeded(us) == ~Truthy(us)

\* `if not utterances:` before "Failed to generate utterances"
GenerationFailed(us) == ~Truthy(us)

\* main's `except KeyboardInterrupt` and `except Exception`
MainExcept(raised) == IF raised = "KeyboardInterrupt" THEN "cancelled" ELSE "error"

\* where main() has ended
Terminal == {"exit", "cancelled", "error", "failed", "done"}

NoSession == [fault |-> "", events |-> <<>>]
NoCall == [fault |-> "", response |-> None]

\* the record files a process can find when it starts
InitialFiles ==
    { <<>>,
      [q \in {FilePath(0, 0)} |-> CsvFile(<<<<"o", "l", "d">>>>, <<"p">>, 1)] }

FsInit(fs) ==
    /\ clock = 0
    /\ files = fs
    /\ dirs = {q.dir : q \in DOMAIN fs}
    /\ saveCalls = 0
    /\ saved = <<>>
    /\ written = <<>>

NormIdle ==
    /\ nClient = ""
    /\ nRaw = <<>>
    /\ nIntention = <<>>
    /\ nResult = None

RunIdle ==
    /\ apiKey = FALSE
    /\ intention = <<>>
    /\ utterances = None
    /\ primaryCalls = 0
    /\ primaryIn = NoSession
    /\ primaryOut = Return(None)
    /\ fallbackCalls = 0
    /\ fallbackArg = <<>>
    /\ fallbackIn = NoCall
    /\ fallbackOut = Return(None)
    /\ displayed = None
    /\ filesAtStart = files

Init ==
    /\ pc = "auth"
    /\ \E fs \in InitialFiles : FsInit(fs)
    /\ RunIdle
    /\ NormIdle

\* main.py 304-316: authentication, with the interactive entry of a key
MainAuth ==
    /\ pc = "auth"
    /\ \E env \in Environments, answer \in {"y", "n", "^C"}, key \in {<<>>, <<"k">>} :
         IF setup_authentication(env)
         THEN pc' = "input" /\ apiKey' = env.apiKey
         ELSE IF answer = "^C"
         THEN pc' = MainExcept("KeyboardInterrupt") /\ apiKey' = env.apiKey
         ELSE IF answer = "y" /\ Len(Strip(key)) > 0
         THEN pc' = "input" /\ apiKey' = TRUE
         ELSE pc' = "exit" /\ apiKey' = env.apiKey
    /\ UNCHANGED <<intention, utterances, primaryCalls, primaryIn, primaryOut,
                   fallbackCalls, fallbackArg, fallbackIn, fallbackOut,
                   displayed, filesAtStart, fsVars, normVars>>

\* main.py 319-321 and get_user_input
MainInput ==
    /\ pc = "input"
    /\ \E typed \in TypedIntentions, interrupt \in BOOLEAN :
         IF interrupt
         THEN pc' = MainExcept("KeyboardInterrupt") /\ intention' = intention
         ELSE /\ intention' = Strip(typed)
              /\ pc' = IF Len(Strip(typed)) = 0 THEN "exit" ELSE "agent"
    /\ UNCHANGED <<apiKey, utterances, primaryCalls, primaryIn, primaryOut,
                   fallbackCalls, fallbackArg, fallbackIn, fallbackOut,
                   displayed, filesAtStart, fsVars, normVars>>

\* create_agent_with_api_key(): raises without a key or without the package
create_agent_with_api_key(key, importable) ==
    IF ~key THEN Raise("ValueError")
    ELSE IF ~importable THEN Raise("ImportError")
    ELSE Return(None)

\* main.py 324-329: the agent, by create_agent or create_agent_with_api_key
MainCreateAgent ==
    /\ pc = "agent"
    /\ \E standard \in BOOLEAN, importable \in BOOLEAN :
         IF standard THEN pc' = "primary"
         ELSE LET r == create_agent_with_api_key(apiKey, importable)
              IN  pc' = IF r.raised # "" THEN MainExcept(r.raised) ELSE "primary"
    /\ UNCHANGED <<apiKey, intention, utterances, primaryCalls, primaryIn,
                   primaryOut, fallbackCalls, fallbackArg, fallbackIn,
                   fallbackOut, displayed, filesAtStart, fsVars, normVars>>

\* main.py 332-347: the primary client, then the fallback decision or the
\* display of its result
MainPrimary ==
    /\ pc = "primary"
    /\ \E session \in Sessions :
         LET out == generate_utterances(session, intention)
         IN  /\ primaryIn' = session
             /\ primaryOut' = out
             /\ primaryCalls' = primaryCalls + 1
             /\ IF out.raised # ""
                THEN /\ pc' = MainExcept(out.raised)
                     /\ UNCHANGED <<utterances, displayed>>
                ELSE /\ utterances' = out.ret
                     /\ IF FallbackNeeded(out.ret)
                        THEN pc' = "fallback" /\ displayed' = displayed
                        ELSE IF GenerationFailed(out.ret)
                        THEN pc' = "failed" /\ displayed' = displayed
                        ELSE pc' = "save" /\ displayed' = out.ret
    /\ UNCHANGED <<apiKey, intention, fallbackCalls, fallbackArg, fallbackIn,
                   fallbackOut, filesAtStart, fsVars, normVars>>

\* main.py 337-347: the fallback client, then failure or the display
MainFallback ==
    /\ pc = "fallback"
    /\ \E call \in Calls :
         LET out == generate_utterances_direct_api(call, apiKey, intention)
         IN  /\ fallbackIn' = call
             /\ fallbackOut' = out
             /\ fallbackArg' = intention
             /\ fallbackCalls' = fallbackCalls + 1
             /\ IF out.raised # ""
                THEN /\ pc' = MainExcept(out.raised)
                     /\ UNCHANGED <<utterances, displayed>>
                ELSE /\ utterances' = out.ret
                     /\ IF GenerationFailed(out.ret)
                        THEN pc' = "failed" /\ displayed' = displayed
                        ELSE pc' = "save" /\ displayed' = out.ret
    /\ UNCHANGED <<apiKey, intention, primaryCalls, primaryIn, primaryOut,
                   filesAtStart, fsVars, normVars>>

\* one call of save_to_csv at the current instant; the clock may move on
\* between its two readings
SaveCall(us, intent) ==
    \E io \in IoFaults, tDir \in {clock, Min(clock + 1, MaxClock)} :
        LET r == save_to_csv(us, intent, clock, tDir, io, dirs, files)
        IN  /\ clock' = tDir
            /\ dirs' = r.dirs
            /\ files' = r.files
            /\ saveCalls' = saveCalls + 1
            /\ saved' = Append(saved, r.ret)
            /\ written' = Append(written,
                                 IF r.wrote THEN Some(r.files[r.ret.val]) ELSE None)

\* main.py 350
MainSave ==
    /\ pc = "save"
    /\ SaveCall(utterances.val, intention)
    /\ pc' = "done"
    /\ UNCHANGED <<apiKey, intention, utterances, primaryCalls, primaryIn,
                   primaryOut, fallbackCalls, fallbackArg, fallbackIn,
                   fallbackOut, displayed, filesAtStart, normVars>>

\* time passes, for a run of main() and for the calls of save_to_csv
Tick ==
    /\ pc # "norm"
    /\ clock < MaxClock
    /\ clock' = clock + 1
    /\ UNCHANGED <<dirs, files, saveCalls, saved, written, runVars, normVars>>

Next ==
    \/ MainAuth
    \/ MainInput
    \/ MainCreateAgent
    \/ MainPrimary
    \/ MainFallback
    \/ MainSave
    \/ Tick

Spec == Init /\ [][Next]_vars

----------------------------------------------------------------------------
(* The clients applied to one raw text *)

NormInit ==
    /\ pc = "norm"
    /\ FsInit(<<>>)
    /\ RunIdle
    /\ nClient = ""
    /\ nRaw \in NormTexts
    /\ nIntention \in Intentions
    /\ nResult = None

\* generate_utterances on a session that streams nRaw
ApplyPrimary ==
    /\ pc = "norm"
    /\ nClient = ""
    /\ nClient' = "primary"
    /\ nResult' = generate_utterances(SessionWithText(nRaw), nIntention).ret
    /\ UNCHANGED <<nRaw, nIntention, mainVars>>

\* generate_utterances_direct_api on a response whose text is nRaw
ApplyDirect ==
    /\ pc = "norm"
    /\ nClient = ""
    /\ nClient' = "direct"
    /\ nResult' = generate_utterances_direct_api(CallWithText(nRaw), TRUE, nIntention).ret
    /\ UNCHANGED <<nRaw, nIntention, mainVars>>

\* generate_utterances_simple on a response whose text is nRaw
ApplySimple ==
    /\ pc = "norm"
    /\ nClient = ""
    /\ nClient' = "simple"
    /\ nResult' = generate_utterances_simple(CallWithText(nRaw), TRUE, nIntention).ret
    /\ UNCHANGED <<nRaw, nIntention, mainVars>>

NormNext == ApplyPrimary \/ ApplyDirect \/ ApplySimple

NormSpec == NormInit /\ [][NormNext]_vars

\* the runs of main() and the clients applied to one raw text, together
FullSpec == (Init \/ NormInit) /\ [][Next \/ NormNext]_vars

----------------------------------------------------------------------------
(* Repeated calls of save_to_csv on one file system *)

SaveInit ==
    /\ pc = "persist"
    /\ FsInit(<<>>)
    /\ RunIdle
    /\ NormIdle

SaveToCsv ==
    /\ saveCalls < MaxSaves
    /\ \E us \in SaveLists, intent \in Intentions : SaveCall(us, intent)
    /\ UNCHANGED <<runVars, normVars>>

SaveNext == SaveToCsv \/ Tick

SaveSpec == SaveInit /\ [][SaveNext]_vars

----------------------------------------------------------------------------
(* Claims *)

\* the raw text a session yields: None when the session raises
SessionRawText(session) ==
    IF session.fault # "none" THEN None
    ELSE LET acc == AddEvents(Return(<<>>), session.events)
         IN  IF acc.raised # "" THEN None ELSE Some(acc.ret)

\* the raw text a stateless call yields: None when it raises, when there is
\* no key, no response or no text
CallRawText(call, key) ==
    IF call.fault # "none" \/ ~key \/ call.response.isNone THEN None
    ELSE call.response.val

NoRawText(raw) == raw.isNone \/ raw.val = <<>>

PrimaryReturnedNothing ==
    primaryCalls = 1 /\ primaryOut.raised = "" /\ primaryOut.ret.isNone

PrimaryReturnedList ==
    primaryCalls = 1 /\ primaryOut.raised = "" /\ ~primaryOut.ret.isNone

\* C1: when the primary client returns no result, main() calls the fallback
\* client exactly once, with the same intention, before it declares the
\* request failed: failure is never declared without that call, and the
\* fallback is never called a second time.
C1_FallbackOnceBeforeFailure ==
    /\ fallbackCalls <= 1
    /\ pc = "failed" => fallbackCalls = 1 /\ fallbackArg = intention
    /\ PrimaryReturnedNothing =>
         \/ pc = "fallback" /\ fallbackCalls = 0
         \/ fallbackCalls = 1 /\ fallbackArg = intention

C1_Witness ==
    /\ pc = "failed"
    /\ PrimaryReturnedNothing
    /\ fallbackCalls = 1
    /\ fallbackArg = intention

\* C2: when neither the primary nor the fallback client yields raw text, the
\* request ends failed: no padded list is substituted, nothing is displayed,
\* save_to_csv is not called and no file is written.
C2_NoTextNoFile ==
    ( /\ fallbackCalls = 1
      /\ fallbackIn.fault # "interrupt"
      /\ NoRawText(SessionRawText(primaryIn))
      /\ NoRawText(CallRawText(fallbackIn, apiKey)) )
    => /\ pc = "failed"
       /\ utterances = None
       /\ displayed = None
       /\ saveCalls = 0
       /\ files = filesAtStart

C2_Witness ==
    /\ pc = "failed"
    /\ primaryIn = [fault |-> "none", events |-> <<>>]
    /\ fallbackIn = CallWithText(<<>>)
    /\ apiKey
    /\ saveCalls = 0

\* every element of the list is non-empty after trimming
AllNonBlank(us) == \A i \in 1..Len(us) : Len(Strip(us[i])) > 0

\* C3: a list returned by any of the three clients has exactly 10 elements,
\* none empty or whitespace-only after trimming, for every raw text and every
\* trimmed non-empty intention; no list of another length is displayed or
\* handed to save_to_csv.
C3_TenNonBlankUtterances ==
    /\ (nClient # "" /\ ~nResult.isNone) =>
          Len(nResult.val) = 10 /\ AllNonBlank(nResult.val)
    /\ ~utterances.isNone => Len(utterances.val) = 10 /\ AllNonBlank(utterances.val)
    /\ ~displayed.isNone => Len(displayed.val) = 10 /\ AllNonBlank(displayed.val)
    /\ \A i \in 1..Len(written) :
          ~written[i].isNone => Len(written[i].val.rows) = 10

C3_Witness ==
    /\ nClient = "simple"
    /\ ~nResult.isNone
    /\ Len(SplitLines(nRaw)) > 10
    /\ \E i \in 1..Len(SplitLines(nRaw)) : Len(Strip(SplitLines(nRaw)[i])) = 0

\* a trimmed line that begins with a digit and has a '.' in its first 5
\* characters
Numbered(line) ==
    /\ Len(line) > 0
    /\ line[1] \in Digits
    /\ \E i \in 1..Len(line) : i <= 5 /\ line[i] = "."

\* the text after the first '.' of a line, trimmed
AfterPrefix(line) ==
    LET i == CHOOSE j \in 1..Len(line) :
                 line[j] = "." /\ \A k \in 1..(j - 1) : line[k] # "."
    IN  Strip(SubSeq(line, i + 1, Len(line)))

\* C4: for every line that, trimmed, begins with a digit and has a '.' within
\* its first 5 characters, the normaliser of main.py removes the text up to
\* and including the first '.', trims the rest and appends it when it is not
\* empty ("1. Hello there" gives "Hello there"): the line is not dropped when
\* text remains after the prefix.
C4_NumberedLineKept ==
    (nClient \in {"primary", "direct"} /\ ~nResult.isNone) =>
        LET lines == SplitLines(nRaw)
        IN  Len(lines) <= 10 =>
              \A i \in 1..Len(lines) :
                 LET line == Strip(lines[i])
                 IN  (Numbered(line) /\ Len(AfterPrefix(line)) > 0) =>
                        \E j \in 1..Len(nResult.val) : nResult.val[j] = AfterPrefix(line)

\* the lines the client's cleaning loop keeps, in input order
Survivors(client, raw) ==
    IF client = "primary" THEN PrimaryCollect(SplitLines(raw))
    ELSE IF client = "direct" THEN DirectCollect(SplitLines(raw))
    ELSE SimpleCollect(SplitLines(raw))

\* n copies of "Alternative expression: {intention}"
Placeholders(n, intent) ==
    [i \in 1..n |->
        <<"A","l","t","e","r","n","a","t","i","v","e"," ",
          "e","x","p","r","e","s","s","i","o","n",":"," ">> \o intent]

\* n copies of "Alternative way to say: {intention}"
SimplePlaceholders(n, intent) ==
    [i \in 1..n |->
        <<"A","l","t","e","r","n","a","t","i","v","e"," ",
          "w","a","y"," ","t","o"," ","s","a","y",":"," ">> \o intent]

\* C5 as stated: normalising empty raw text yields 10 entries, each
\* "Alternative expression: {intention}"; when fewer than 10 lines survive
\* cleaning, they come first in input order and every remaining position up
\* to 10 holds that placeholder.
C5_EmptyTextPadded ==
    nClient # "" =>
        LET kept == Survivors(nClient, nRaw)
        IN  /\ nRaw = <<>> => nResult = Some(Placeholders(10, nIntention))
            /\ Len(kept) < 10 =>
                 nResult = Some(kept \o Placeholders(10 - Len(kept), nIntention))

\* C5 amended: for empty raw text every client returns the no-result signal
\* (generate_utterances also for whitespace-only text) and a list for every
\* other text; in a returned list with fewer than 10 surviving lines, they
\* come first in input order and every remaining position up to 10 holds
\* "Alternative expression: {intention}" in main.py and
\* "Alternative way to say: {intention}" in main_simple.py.
C5_PaddedAfterSurvivors ==
    nClient # "" =>
        LET kept == Survivors(nClient, nRaw)
            pad == IF nClient = "simple"
                   THEN SimplePlaceholders(10 - Len(kept), nIntention)
                   ELSE Placeholders(10 - Len(kept), nIntention)
        IN  /\ nRaw = <<>> => nResult = None
            /\ nResult.isNone <=>
                 IF nClient = "primary" THEN Strip(nRaw) = <<>> ELSE nRaw = <<>>
            /\ (~nResult.isNone /\ Len(kept) < 10) => nResult = Some(kept \o pad)

C5_Witness ==
    /\ nClient = "direct"
    /\ ~nResult.isNone
    /\ Len(Survivors("direct", nRaw)) \in 1..9
    /\ nResult.val[10] = Placeholders(1, nIntention)[1]

\* a line as the response should hold it: trimmed, not empty, no bullet, no
\* number
WellFormed(line) ==
    /\ Len(line) > 0
    /\ Strip(line) = line
    /\ line[1] \notin {"-", Bullet, "*"}
    /\ ~Numbered(line)

\* a line no client keeps anything of: blank, or a bullet item
Discarded(line) ==
    \/ Strip(line) = <<>>
    \/ Strip(line)[1] \in {"-", Bullet, "*"}

\* C6: when the raw text holds more than 10 well-formed lines (among blank
\* and bullet lines only), the list returned is exactly the first 10 of them
\* in their original order: only the surplus at the end is dropped and no
\* placeholder appears.
C6_FirstTenKept ==
    nClient # "" =>
        LET lines == SplitLines(nRaw)
            good == SelectSeq(lines, WellFormed)
        IN  ( /\ \A i \in 1..Len(lines) : WellFormed(lines[i]) \/ Discarded(lines[i])
              /\ Len(good) > 10 )
            => nResult = Some(SubSeq(good, 1, 10))

C6_Witness ==
    /\ nClient = "primary"
    /\ LET lines == SplitLines(nRaw)
       IN  /\ \A i \in 1..Len(lines) : WellFormed(lines[i]) \/ Discarded(lines[i])
           /\ Len(SelectSeq(lines, WellFormed)) > 10
           /\ \E i \in 1..10 : Discarded(lines[i])
    /\ ~nResult.isNone
    /\ nResult.val[10] = CleanLineAt(10)

\* C7: every call of save_to_csv creates a new record file and overwrites
\* none: two successful calls, also two within the same clock second,
\* return two distinct paths, and the content each wrote is still in place.
C7_SavesNeverCollide ==
    \A i, j \in 1..Len(saved) :
        (i < j /\ ~saved[i].isNone /\ ~saved[j].isNone) =>
            /\ saved[i].val # saved[j].val
            /\ files[saved[i].val] = written[i].val
            /\ files[saved[j].val] = written[j].val

\* the paths whose file differs from the one main() found at its start
FilesWritten ==
    {q \in DOMAIN files : q \notin DOMAIN filesAtStart \/ files[q] # filesAtStart[q]}

\* the primary client was given 12 clean lines
PrimaryGotTwelveLines ==
    /\ primaryCalls = 1
    /\ SessionRawText(primaryIn) = Some(JoinLines(CleanLines(12)))

\* C8: when the primary client receives 12 clean lines, the run succeeds with
\* the first 10 of them as its result, and the one file save_to_csv writes
\* holds the header id, utterance, original_intention and then one row per
\* utterance, in order, with the ids 1 to 10 and the intention on every row.
C8_TwelveLinesEndToEnd ==
    PrimaryGotTwelveLines =>
        /\ pc \in {"save", "done"}
        /\ utterances = Some(CleanLines(10))
        /\ displayed = Some(CleanLines(10))
        /\ saveCalls = IF pc = "done" THEN 1 ELSE 0
        /\ pc = "save" => FilesWritten = {}
        /\ (pc = "done" /\ ~saved[1].isNone) =>
             /\ FilesWritten = {saved[1].val}
             /\ files[saved[1].val].header = <<"id", "utterance", "original_intention">>
             /\ Len(files[saved[1].val].rows) = 10
             /\ \A i \in 1..10 :
                  files[saved[1].val].rows[i] =
                     [id |-> i, utterance |-> CleanLineAt(i),
                      original_intention |-> intention]

C8_Witness ==
    /\ PrimaryGotTwelveLines
    /\ pc = "done"
    /\ ~saved[1].isNone
    /\ Len(files[saved[1].val].rows) = 10
    /\ intention = <<"o", "r", "d", "e", "r", " ", "a", " ", "p", "i", "z", "z", "a">>

\* the primary client met an error: in the session's setup, in the stream of
\* events, or in adding up an event's text
PrimaryFaulted ==
    /\ primaryCalls = 1
    /\ primaryIn.fault # "interrupt"
    /\ SessionRawText(primaryIn).isNone

\* the fallback client met an error: the package, the missing key, the
\* remote call or the response's text
FallbackFaulted ==
    /\ fallbackCalls = 1
    /\ (fallbackIn.fault \in {"import", "call", "text"} \/ ~apiKey)

\* C9: no client raises an error past its boundary: an error in the session's
\* setup, in the stream of events, a missing key or a failing remote call is
\* caught in the client and returned as the no-result signal, so an error of
\* the primary client takes main() to the fallback attempt and never ends the
\* run with a propagated exception.
C9_ClientsCatchErrors ==
    /\ primaryOut.raised \notin ExceptionClasses
    /\ fallbackOut.raised \notin ExceptionClasses
    /\ PrimaryFaulted =>
         /\ primaryOut = [raised |-> "", ret |-> None]
         /\ pc # "error"
         /\ pc = "fallback" \/ fallbackCalls = 1
    /\ FallbackFaulted =>
         /\ fallbackOut = [raised |-> "", ret |-> None]
         /\ pc = "failed"
    /\ pc = "error" => primaryCalls = 0

C9_Witness ==
    /\ PrimaryFaulted
    /\ primaryIn.fault = "stream"
    /\ FallbackFaulted
    /\ ~apiKey
    /\ pc = "failed"

\* C10: whenever the primary client returns a list, the run succeeds with it
\* directly: the fallback client is never called, and the list displayed and
\* the rows written are the primary client's result unchanged.
C10_PrimaryResultUsedDirectly ==
    PrimaryReturnedList =>
        /\ fallbackCalls = 0
        /\ pc \in {"save", "done"}
        /\ utterances = primaryOut.ret
        /\ displayed = primaryOut.ret
        /\ \A i \in 1..Len(written) :
              ~written[i].isNone =>
                 /\ Len(written[i].val.rows) = Len(primaryOut.ret.val)
                 /\ \A k \in 1..Len(primaryOut.ret.val) :
                       written[i].val.rows[k].utterance = primaryOut.ret.val[k]

C10_Witness ==
    /\ PrimaryReturnedList
    /\ pc = "done"
    /\ fallbackCalls = 0
    /\ Len(written) = 1
    /\ ~written[1].isNone

\* the text fragments of a content's parts, in order: a part with no `text`
\* attribute, or whose text is None, carries none
RECURSIVE PartFragments(_)
PartFragments(parts) ==
    IF Len(parts) = 0 THEN <<>>
    ELSE (IF parts[1].hasText /\ ~parts[1].text.isNone
          THEN parts[1].text.val ELSE <<>>)
         \o PartFragments(Tail(parts))

\* the text fragments of a response's candidates, in order
RECURSIVE CandidateFragments(_)
CandidateFragments(cands) ==
    IF Len(cands) = 0 THEN <<>>
    ELSE (IF cands[1].isNone THEN <<>> ELSE PartFragments(cands[1].val))
         \o CandidateFragments(Tail(cands))

\* the text fragments of the streamed events, in order, as one text
RECURSIVE EventFragments(_)
EventFragments(events) ==
    IF Len(events) = 0 THEN <<>>
    ELSE (IF events[1].kind = "response" THEN CandidateFragments(events[1].cands)
          ELSE IF events[1].kind = "text" /\ ~events[1].text.isNone
          THEN events[1].text.val
          ELSE <<>>)
         \o EventFragments(Tail(events))

\* C11: in the session-based client the accumulated response text is the
\* in-order concatenation of every text fragment the streamed events carry;
\* an event or part without text is skipped, adds nothing, and never makes
\* the client fail or lose the fragments accumulated before it.
C11_FragmentsConcatenated ==
    (primaryCalls = 1 /\ primaryIn.fault = "none") =>
        LET text == EventFragments(primaryIn.events)
        IN  /\ SessionRawText(primaryIn) = Some(text)
            /\ primaryOut.raised = ""
            /\ Len(Strip(text)) > 0 => ~primaryOut.ret.isNone

\* C12: the two copies of the normaliser in main.py are equivalent: for every
\* raw text, empty and whitespace-only included, and every intention,
\* generate_utterances and generate_utterances_direct_api return the same
\* outcome, both the no-result signal or both the same list of 10.
C12_CopiesEquivalent ==
    /\ nClient = "primary" =>
         nResult = generate_utterances_direct_api(CallWithText(nRaw), TRUE, nIntention).ret
    /\ nClient = "direct" =>
         nResult = generate_utterances(SessionWithText(nRaw), nIntention).ret

====
